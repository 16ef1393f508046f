SPECIFICATION SiteSpec
CONSTANTS
  Links = {"l1", "l2"}
  Assets = {"f1", "f2"}
  Firewalls = {"f1", "f2"}
  SdwanEnabled = TRUE
  Checks = {"c1", "c2", "c3", "c4"}
  Owner <- MixedOwner
 
PROPERTIES DownNeverImproves
