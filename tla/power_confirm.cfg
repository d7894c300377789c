SPECIFICATION PowerSpec
CONSTANTS
  admin = admin
  guest = guest
  reboot = reboot
  sleep = sleep
  Users <- MCUsers
  ReadOnly <- MCReadOnly
  Actions <- MCActions
  Window = 2
  MaxRequests = 3
  MaxCrashes = 1
  Horizon = 4
INVARIANTS OncePerRequest ToldIsAudited
PROPERTY RequestsAreGrants
CHECK_DEADLOCK FALSE
