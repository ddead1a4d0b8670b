SPECIFICATION RegSpec
CONSTANTS
    Users = {u1, u2}
    Addresses = {"local", "remote"}
    Local = "local"
    Absent = Absent
    u1 = u1
    u2 = u2
    MaxRows = 3
PROPERTIES RegisteredReachesDisk
CHECK_DEADLOCK FALSE
