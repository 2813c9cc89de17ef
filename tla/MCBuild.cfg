CONSTANTS
  x = x
  y = y
  bus = bus
  lib = lib
  plugin = plugin
  Tags = {x, y}
  Modules = {bus, lib, plugin}
  Root = bus
  Subscriptions <- BuilderSubscriptions
  RelayTables <- BuilderTables
  MaxReceivers = 3
SPECIFICATION Spec
INVARIANTS
  NoReceiverLost
  PolledOnce
  SelectsAccepting
  SendsReach
CHECK_DEADLOCK FALSE
