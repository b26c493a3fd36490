\* Every choice of documents for three sources and two included files, six command lines: what files
\* say of tools, complexity and strictness does not always reach the run.
SPECIFICATION Spec
CONSTANTS
  Sources <- SourcesDef
  Files <- FilesDef
  Contents <- ContentsDef
  Fields <- FieldsDef
  Kind <- KindDef
  Defaults <- DefaultsDef
  ProjectRoot = "."
  KnownTools = {"ruff.select", "ruff.config", "mypy.strict", "mypy.sqlite-cache"}
  Discovered <- DiscoveredDef
  CommandLines <- CommandLinesDef
  Presets <- PresetsDef
  PresetTools <- PresetToolsDef
  SkipIfTruthy = {"ruff.select"}
  Falsy = {"nothing"}
  StrictLevels = {"high", "maximum"}
  MypyFlags = {"mypy.sqlite-cache"}
  MypyStrict = {"mypy.strict"}
INVARIANT
  FilesConfigureTools
