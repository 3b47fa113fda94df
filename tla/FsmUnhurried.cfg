SPECIFICATION ScreenUnhurriedSpec
CONSTANTS
  p1 = p1
  x1 = x1
  NoId = NoId
  Catalog = {p1}
  Foreign = {x1}
  QueueLen = 5
  ScanQueueLen = 1
  PendingLen = 1
  MaxQuantity = 2
  MaxStock = 1
  Script <- NoScript
  Inputs = {"BTN_UP", "BTN_SELECT", "BTN_EXIT", "MQTT_CONNECT_SUCCESS", "MQTT_CONNECT_FAILURE"}
INVARIANT ScreenAgrees
PROPERTIES ScanAnswered PublishAnswered WaitingComesBack
