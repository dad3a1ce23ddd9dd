CONSTANTS
  NumCpus = 3
  DrmCards = {intel, amd}
  NvCards = {1, 2}
  None = None
  Undefined = Undefined
  Disks = {sda}
  Interfaces = {eth0}
  Sensors = {psu1, psu2, coretemp}
  Psus = {psu1, psu2}
  Paths = {hwmon0, hwmon1}
SPECIFICATION MCSpec
INVARIANTS
  TypeOK
  BoxMatchesMode
  ViewsShowTheirCard
  PagesMeetDevices
CHECK_DEADLOCK FALSE
