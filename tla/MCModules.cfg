\* One behaviour is one of one component; the bounds are beside the instances.
SPECIFICATION Spec
INVARIANTS TypeOK AngelSafe NoneLost HupsEnd Reference Remembered Trusted
PROPERTIES StartTaken Replaced
\* the angel and the parent end, an image is converted once
CHECK_DEADLOCK FALSE
