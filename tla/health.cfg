SPECIFICATION MCSpec
CONSTANTS
  Services = 3
  Vpn <- MCVpn
  Docker <- MCDocker
  Absent = {}
  Limit = 1
  Grace = 1
  Horizon = 4
INVARIANTS EndsInTime AlertsAreDegradations
PROPERTIES WholeOutput OutageNoticed ImplementsMonitor
CHECK_DEADLOCK FALSE
