SPECIFICATION FairSpec
INVARIANT TypeOK
INVARIANT OneStrayMotion
PROPERTY StaysStill
PROPERTY FollowAvoids
 
CHECK_DEADLOCK FALSE
