\* Two credentials, auto-connect on, a driver that may refuse scans and
\* joins, a two-item work queue, two power cycles.
CONSTANTS
  c1 = c1
  c2 = c2
  None = None
  Creds <- MCCreds
  MaxRx = 2
  MaxScans = 1
  MaxResets = 1
  MaxDrops = 1
  MaxReboots = 2
  WorkQueueCap = 2
  AutoConnect = TRUE
  DriverMayRefuse <- MCRefuseBoth
  InitMayFail = TRUE

SPECIFICATION Spec

\* the device idles waiting for a BLE write once the bounds are spent
CHECK_DEADLOCK FALSE

INVARIANTS
  TypeOK

PROPERTIES
  ProvisioningResolves
  CredentialOutcomeNotified
