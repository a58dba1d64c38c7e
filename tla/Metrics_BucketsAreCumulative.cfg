\* The documented claim that a scrape is in the Prometheus format.
CONSTANTS
    Tasks = {t1, t2}
    Buckets = 3
SPECIFICATION Spec
INVARIANT BucketsAreCumulative
