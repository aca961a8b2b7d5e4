\* A subsystem fails while the node boots.
SPECIFICATION Spec
CONSTANTS
  Name <- MCName
  Image <- MCImage
  Long = "too long"
  Cut = "cut"
  MaxServices = 3
  RegistrySize = 3
  Wide = 16
INVARIANT DegradesGracefully
CHECK_DEADLOCK FALSE
