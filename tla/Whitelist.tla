------------------------------ MODULE Whitelist ------------------------------
(***************************************************************************)
(* internal/policy/whitelist.go: which paths of a service may be asked for.*)
(* A path is split at its slashes: "/v1/chat" is <<"", "v1", "chat">>, and *)
(* "/" is <<"", "">>.  Entries of the configuration are taken as they are. *)
(***************************************************************************)
EXTENDS Integers, Sequences, SequencesExt

CleanKeepsDots(path) == path                                    \* mutant

\* path.Clean of a rooted path: no empty elements, no dots.
CleanElement(done, e) == IF e \in {"", "."} THEN done
                         ELSE IF e # ".." THEN Append(done, e)
                         ELSE IF done = << >> THEN done ELSE Front(done)

Clean(path) ==
  LET elements == FoldLeft(CleanElement, << >>, Tail(path))
  IN <<"">> \o IF elements = << >> THEN <<"">> ELSE elements

\* Whitelist.Allowed: a cleaned path is an entry, or goes on after it with a slash.
Allowed(entries, path) == \E e \in entries : IsPrefix(e, Clean(path))

\* SetURL: the path, as it was written, goes on after the target's own, which may be
\* empty, with one slash between them.
JoinPath(base, path) ==
  (IF Len(base) > 1 /\ Last(base) = "" THEN Front(base) ELSE base) \o Tail(path)

(***************************************************************************)
(* Where a path leads, by walking it: in the root, "..", "." and an empty  *)
(* element stay where they are.                                            *)
(***************************************************************************)
Leads(path) ==
  LET At[n \in 1..Len(path)] ==
        IF n = 1 THEN << >>
        ELSE LET here == At[n - 1] IN
             CASE path[n] = ".." -> SubSeq(here, 1, Len(here) - 1)
               [] path[n] \in {"", "."} -> here
               [] OTHER -> Append(here, path[n])
  IN At[Len(path)]

\* Some ".." of the path stands where there is nothing to go back to.
Climbs(path) == \E n \in 2..Len(path) :
  path[n] = ".." /\ Leads(SubSeq(path, 1, n - 1)) = << >>
=============================================================================
