CONSTANTS
    Scripts <- UnknownScripts
    Half = 16
SPECIFICATION Spec
INVARIANT PacketDataRemoved
