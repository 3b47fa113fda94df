SPECIFICATION CalmSpec
CONSTANTS
  p1 = p1
  x1 = x1
  NoId = NoId
  Catalog = {p1}
  Foreign = {x1}
  QueueLen = 2
  ScanQueueLen = 1
  PendingLen = 1
  MaxQuantity = 2
  MaxStock = 2
  Script <- NoScript
  Inputs = {"BTN_UP", "BTN_DOWN", "BTN_SELECT", "BTN_EXIT", "WIFI_CONNECT_SUCCESS", "MQTT_CONNECT_SUCCESS", "MQTT_CONNECT_FAILURE"}
INVARIANTS AdditionInFlight ShownIsStored
PROPERTY ImplementsInventory
