------------------------ MODULE MC_StatsAggregator ------------------------
EXTENDS StatsAggregator

CONSTANTS s1, s2, s3

MCSeries == <<s1, s2, s3>>
=============================================================================
