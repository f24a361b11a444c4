\* Run wifi_mixed_settings: three credential writes and a two-item work
\* queue, so a reset and the auto-connect item can fill it while cred_work
\* is between its settings writes and a third write's submit is refused.
CONSTANTS
  c1 = c1
  c2 = c2
  None = None
  Creds <- MCCreds
  MaxRx = 3
  MaxScans = 1
  MaxResets = 1
  MaxDrops = 1
  MaxReboots = 2
  WorkQueueCap = 2
  AutoConnect = TRUE
  DriverMayRefuse <- MCRefuseBoth
  InitMayFail = TRUE

SPECIFICATION Spec

\* the device idles waiting for a BLE write once the bounds are spent
CHECK_DEADLOCK FALSE

INVARIANT
  PersistedMatchesMemory

