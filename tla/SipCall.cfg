SPECIFICATION FairSpec
CONSTANT MaxReInvite = 2
INVARIANTS TypeOK  
PROPERTIES CallsAgree 
CHECK_DEADLOCK FALSE
