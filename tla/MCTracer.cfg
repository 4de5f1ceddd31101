\* Three processes besides init: a child, a grandchild and a child of that one,
\* or a zygote that dies and its successor beside another child of init.
CONSTANT MaxPid = 4
SPECIFICATION FairSpec
INVARIANTS TypeOK ZygoteTakenOver GrandchildAccounted
 
\* A tracer that has panicked leaves every process it traces stopped.
CHECK_DEADLOCK FALSE
