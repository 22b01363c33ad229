CONSTANTS
    own = own
    other = other
    None = None
SPECIFICATION Spec
INVARIANT OneAnswer OneHop EachServesAlone
