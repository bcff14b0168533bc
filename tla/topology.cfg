SPECIFICATION Spec
CONSTANTS
    CmdLines <- DocumentedLines
    Win = 4
INVARIANTS
    TypeOK
    DevicesDistinct
    EndpointsPerDecoder
    WindowsRouted
CHECK_DEADLOCK FALSE
