CONSTANTS
    Scripts <- RefusedScripts
    Half = 16
SPECIFICATION Spec
INVARIANT GrantedIsGranted
