SPECIFICATION DriverSpec
CONSTANTS
  Name = {"disk", "net"}
  Cpu = {"cpu1"}
  Device = {"pci0"}
  Records = 2
  MaxHooks = 2
  Imports <- MCImports
  Permissions <- MCPermissions
  MaxGeneration = 2
INVARIANTS   OwnershipAgrees
CHECK_DEADLOCK FALSE
