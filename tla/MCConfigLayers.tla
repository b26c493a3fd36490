----------------------------- MODULE MCConfigLayers -----------------------------
(* Three sources and two files they may include, each with a few documents. *)
EXTENDS ConfigLayers, TLC

SourcesDef == <<"home", "pyproject", "project">>
DiscoveredDef == "ruff.config" :> "ruff.toml"
FilesDef == {"home", "pyproject", "project", "shared", "extra"}
FieldsDef ==
  {"jobs", "bail", "by", "excludes", "limit_to", "ruff.select", "ruff.config",
   "mypy.strict", "mypy.sqlite-cache", "odd.key", "max_complexity",
   "roots", "quiet", "show_passing"}
KindDef ==
  [f \in FieldsDef |->
     CASE f \in {"jobs", "bail", "roots"} -> f [] f \in {"by", "quiet"} -> "replace"
       [] f = "excludes" -> "append" [] f = "show_passing" -> "shown"
       [] f = "limit_to" -> "limit" [] f = "max_complexity" -> "knob" [] OTHER -> "tool"]
DefaultsDef ==
  [f \in FieldsDef |->
     CASE f = "jobs" -> "8" [] f \in {"bail", "quiet", "show_passing"} -> "false"
       [] f = "by" -> "first" [] f = "roots" -> <<".">>
       [] f = "excludes" -> <<"venv">> [] f = "limit_to" -> "none" [] f = "max_complexity" -> "10"
       [] f = "mypy.sqlite-cache" -> "true" [] OTHER -> Absent]

Doc(includes, fields) == [includes |-> includes, fields |-> fields, exists |-> TRUE]
ContentsDef ==
  [f \in FilesDef |-> {Missing} \union
     CASE f = "home" ->
            {Doc(<<>>, "jobs" :> "4" @@ "excludes" :> <<"a">> @@ "roots" :> <<>>),
             Doc(<<>>, "bail" :> "true" @@ "ruff.select" :> "nothing"),
             Doc(<<"shared">>, "by" :> "severity" @@ "quiet" :> "true")}
       [] f = "pyproject" ->
            {Doc(<<>>, "bail" :> "false" @@ "excludes" :> <<"b", "a">>),
             Doc(<<>>, "jobs" :> "2" @@ "mypy.strict" :> "true" @@ "show_passing" :> "true"),
             Doc(<<"extra">>, Empty),
             Doc(<<>>, "by" :> "invalid")}
       [] f = "project" ->
            {Doc(<<"shared", "extra">>, "jobs" :> "3"),
             Doc(<<"extra">>, "mypy.sqlite-cache" :> "false" @@ "limit_to" :> "src" @@ "ruff.select" :> "W"),
             Doc(<<>>, "max_complexity" :> "3" @@ "ruff.config" :> "own"),
             Doc(<<>>, "odd.key" :> "1" @@ "bail" :> "true" @@ "roots" :> <<"src", ".", "src">>)}
       [] f = "shared" ->
            {Doc(<<"extra">>, "excludes" :> <<"c", "c">> @@ "jobs" :> "5" @@ "roots" :> <<"lib">>),
             Doc(<<"project">>, "ruff.select" :> "F")}
       [] f = "extra" ->
            {Doc(<<>>, "jobs" :> "6" @@ "excludes" :> <<"d">> @@ "ruff.select" :> "I"),
             Doc(<<"shared">>, "bail" :> "false")}]

Line(fields, sensitivity, strict) ==
  [given |-> fields, sensitivity |-> sensitivity, strict |-> strict]
CommandLinesDef ==
  {Line(Empty, Absent, FALSE), Line(Empty, Absent, TRUE), Line(Empty, "maximum", FALSE),
   Line("jobs" :> "7" @@ "excludes" :> <<"a", "e">> @@ "show_passing" :> "true", Absent, FALSE),
   Line("bail" :> "true" @@ "max_complexity" :> "12" @@ "quiet" :> "true", "maximum", FALSE),
   Line("bail" :> "false" @@ "jobs" :> "9" @@ "limit_to" :> "lib" @@ "roots" :> <<"src", "lib">>,
        Absent, FALSE)}

PresetsDef == [medium |-> "max_complexity" :> "10", maximum |-> "max_complexity" :> "6"]
PresetToolsDef == [medium |-> Empty, maximum |-> "ruff.select" :> "ALL"]
=============================================================================
