\* Every choice of documents for three sources and two included files, six command lines.
SPECIFICATION Spec
CONSTANTS
  Sources <- SourcesDef
  Files <- FilesDef
  Contents <- ContentsDef
  Fields <- FieldsDef
  Kind <- KindDef
  Defaults <- DefaultsDef
  ProjectRoot = "."
  KnownTools = {"ruff.select", "ruff.config", "mypy.strict", "mypy.sqlite-cache"}
  Discovered <- DiscoveredDef
  CommandLines <- CommandLinesDef
  Presets <- PresetsDef
  PresetTools <- PresetToolsDef
  SkipIfTruthy = {"ruff.select"}
  Falsy = {"nothing"}
  StrictLevels = {"high", "maximum"}
  MypyFlags = {"mypy.sqlite-cache"}
  MypyStrict = {"mypy.strict"}
INVARIANTS
  TraceReplays
  BlameIsRight
  LaterSourceWins
  ListsAccumulate
  BailIsSerial
  CircularMeansCycle
  CommandLineWins
  PresetsKeepToolSettings
