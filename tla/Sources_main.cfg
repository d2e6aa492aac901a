SPECIFICATION Spec
CONSTANTS
    usb = usb
    upnp = upnp
    roon = roon
    None = None
    Own <- MCOwn
    External <- MCExternal
    DropIn <- MCExternal
    Commands = {"LISTENING"}
    MaxEvents = 3
    MaxRequests = 1
    MaxRefused = 1
SYMMETRY Sym
INVARIANT PlugIsConsistent
INVARIANT SettlesOnPath
