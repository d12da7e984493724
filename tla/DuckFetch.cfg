SPECIFICATION FairSpec
PROPERTY FetchScans
CHECK_DEADLOCK FALSE
