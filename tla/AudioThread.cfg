CONSTANTS
  Provisioners = {p1, p2}
  Targets = {0, 50, 120}
  OwnPriorities = {0, 60}
  Platforms = {"linux", "macos", "other"}
  Guards = {g1, g2}
  Architectures = {"x86_64", "aarch64", "other"}
SYMMETRY Symmetry
SPECIFICATION AudioSpec
INVARIANTS ScheduleRestored ReportHonest RegisterRestored SubnormalsFlushed
