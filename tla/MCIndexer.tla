----------------------------- MODULE MCIndexer -----------------------------
(* Two repositories: one that others use, with files of all languages, and  *)
(* one that calls it by name and by package.  Their contents differ in what *)
(* the caches have to tell apart: a definition, a comment that moves what   *)
(* follows it, a resolver in a comment, a broken file, the manifest, a      *)
(* locked dependency.                                                       *)
EXTENDS Indexer

Source(path, defines, calls, range, lined, comment, broken) ==
    [path |-> path, defines |-> defines, calls |-> calls, range |-> range, lined |-> lined,
     comment |-> comment, broken |-> broken]
Proto(is_locked) == [path |-> "api", defines |-> {"Api"}, locked |-> is_locked]
Input(rust, typescript, protobuf, manifest) ==
    [rust |-> rust, typescript |-> typescript, protobuf |-> protobuf, manifest |-> manifest]

(* The note stands between the function and the interface, the other        *)
(* comments above both.                                                     *)
Line(comment) == IF comment = "none" THEN 2 ELSE 3
Range(comment) == IF comment \in {"none", "note"} THEN 1 ELSE 2
Lib(comment, broken) ==
    {Source("index", {"f"}, {}, Range(comment), {[name |-> "Shape", line |-> Line(comment)]},
            comment, broken)}
User == {Source("index", {"g"}, {<<None, "g">>, <<"lib", "f">>}, 1, {}, "none", FALSE)}

MCRepositories == {"A", "B"}
MCContents ==
    [A |-> {Input(Lib("none", FALSE), Lib("none", FALSE), {Proto(TRUE)}, "lib"),
            Input(Lib("note", FALSE), Lib("note", FALSE), {Proto(TRUE)}, "lib"),
            Input(Lib("note", FALSE), Lib("grats", FALSE), {Proto(TRUE)}, "lib"),
            Input(Lib("note", FALSE), Lib("header", FALSE), {Proto(TRUE)}, "lib"),
            Input(Lib("note", FALSE), Lib("note", TRUE), {Proto(FALSE)}, None)},
     B |-> {Input(User, User, {}, None), Input({}, {}, {Proto(TRUE)}, None)}]
MCBuilds ==
    {[frontend |-> 1, resolver |-> 1, plugin |-> 1],
     [frontend |-> 1, resolver |-> 1, plugin |-> 2]}
=============================================================================
