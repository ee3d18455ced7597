SPECIFICATION Spec
INVARIANTS LoaderSound InterruptsSound VolumeFound
 
CHECK_DEADLOCK FALSE
