CONSTANTS
  Provisioners = {p1}
  Targets = {50, 90}
  OwnPriorities = {0}
  Platforms = {"linux"}
SPECIFICATION Spec
INVARIANT DropRestores
