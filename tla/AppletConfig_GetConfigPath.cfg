CONSTANTS
    Creators = {"lego", "vhost"}
    Profiles = {"t"}
    MaxWrites = 1
    MaxTpl = 4
SPECIFICATION Spec
INVARIANTS GetConfigPath
CONSTANTS one = one two = two three = three Unset = Unset TengoObj = TengoObj Bad = Bad Absent = Absent Nil = Nil
