CONSTANTS
    phone = phone
    laptop = laptop
    app1 = app1
    app2 = app2
    NoConfig = NoConfig
    NoSave = NoSave
    Devices = {phone, laptop}
    Apps = {app1, app2}
    MaxAccounts = 2
SPECIFICATION Spec
INVARIANTS TypeOK FreshSaveOnlyAdds ResolvedChangesAreStored
SYMMETRY Interchangeable
CHECK_DEADLOCK FALSE
