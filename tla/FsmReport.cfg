SPECIFICATION UnhurriedSpec
CONSTANTS
  p1 = p1
  x1 = x1
  NoId = NoId
  Catalog = {p1}
  Foreign = {x1}
  QueueLen = 5
  ScanQueueLen = 1
  PendingLen = 1
  MaxQuantity = 1
  MaxStock = 1
  Script <- NoScript
  Inputs = {"BTN_SELECT", "BTN_UP", "MQTT_CONNECT_SUCCESS"}
PROPERTY AdditionReported
