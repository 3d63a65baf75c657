CONSTANTS
    Depths = {0}
    Owners = {{"no form"}}
SPECIFICATION Spec
INVARIANT NoProxiedUrlIsRead
