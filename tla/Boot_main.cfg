\* Registry and configuration of one size, as in prj.conf, so that the node's own
\* services do not always fit.  A failed net setup or discovery ends every activity.
SPECIFICATION FairSpec
CONSTANTS
  Name <- MCName
  Image <- MCImage
  Long = "too long"
  Cut = "cut"
  MaxServices = 3
  RegistrySize = 3
  Wide = 16
INVARIANTS TypeOK ReadyBeforeUse AnnouncesItsConfig SlaAsConfigured
PROPERTIES AnnouncedIsReached BootCompletes
CHECK_DEADLOCK FALSE
