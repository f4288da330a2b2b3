\* One behaviour is one of one instance; the bounds are beside the instances.
SPECIFICATION Spec
INVARIANTS TypeOK CountsAgree AskedOnce Continued ChildrenKept Whole Turns
PROPERTY Ends
\* requests may all be answered, and no more scripts be started
CHECK_DEADLOCK FALSE
