CONSTANTS
  Absent = Absent
  Networks = {"n1", "n2"}
  ByteModulus = 4
  alphabet <- Builtin
  DefaultSlugLength = 2
  EnvSettings <- Envs
  YamlSettings <- Yamls
  FrontendDirs <- Dirs
  StaticRoots <- Roots
  Methods = {"GET", "POST", "PUT", "DELETE", "HEAD"}
  Urls <- Requested
  Extension <- TokenExtension
  MaxRequestStrLen = 5
  MaxFilePathLen = 6
SPECIFICATION Spec
INVARIANTS SlugsCanBeMade TrustsWhatIsListed LinksLeadBack EveryShorteningCounted ServedBelowRoot PagesServedAsThemselves
