SPECIFICATION FairSpec
CONSTANTS
    procs = 3
    Types <- MessageTypes
INVARIANTS TypeOK EchoesAreSent StagesInOrder DeliveredFromSender
PROPERTY BroadcastsEnd
CHECK_DEADLOCK FALSE
