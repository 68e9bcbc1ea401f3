------------------------------ MODULE FileSearch ------------------------------
(* The file module of the agent: the searches of one run walk the trees below *)
(* their paths together. The walk switches searches on and off, counts depths *)
(* and hits, evaluates each file against the searches that are on, and the    *)
(* processor of each search collects what its checks report.                  *)
(* The order in which a directory lists its entries, and in which Go ranges   *)
(* over the map of searches, is open.                                         *)
EXTENDS Integers, Sequences, FiniteSets, SequencesExt

CONSTANTS
  Inputs,      \* parameters and trees: [searches, roots, tree]
  Extending,   \* Extending[n]: the names that begin with the characters of n
  Unlimited,   \* what makeChecks makes of 0, larger than any depth and number of files
  DepthMod     \* currentdepth is a uint64: depths are counted modulo DepthMod

MetaKinds == <<"name", "mode", "size", "mtime">>
HashKinds == <<"md5", "sha1", "sha2", "sha3">>

VARIABLES
  given,      \* the element of Inputs of this run
  stage,      \* "check", "walk", "done" or "failed"
  roots,      \* roots that Run has not entered
  traversed,  \* what the last pathWalk from Run returned
  frames,     \* the calls of pathWalk in progress: [path, pc, todo, subdirs, traversed]
  place,      \* place[l]: iscurrent and currentdepth of search l
  found       \* isactive, the matches, the hits and the errors

fvars == <<given, stage, roots, traversed, frames, place, found>>

Labels == DOMAIN given.searches
Search(l) == given.searches[l]

(* --- parameters ------------------------------------------------------------- *)

(* A filter of a search has a kind, may begin with "!", and is right, is      *)
(* refused ("malformed"), has no digits (a size or a date), or is a hash of a *)
(* length that no algorithm has.                                              *)
Filter(s, i) == s.filters[i]

(* The length of a SHA2 or SHA3 hash is only complained about.                *)
Accepted(s) ==
  /\ s.paths # {}
  /\ \A i \in DOMAIN s.filters :
       \/ Filter(s, i).form \in {"right", "no digits"}
       \/ Filter(s, i).form = "bad length" /\ Filter(s, i).kind \in {"sha2", "sha3"}

(* "!" inverts contents and names, mismatch all filters of a kind. A hash of  *)
(* bad length leaves a check without a kind, which nothing ever evaluates.    *)
CheckOf(s, v) ==
  [kind |-> IF v.form = "bad length" THEN "none" ELSE v.kind,
   inverse |-> v.neg /\ v.kind \in {"content", "name"},
   mismatch |-> v.kind \in s.mismatch]

MakeChecks(s) == [i \in DOMAIN s.filters |-> CheckOf(s, Filter(s, i))]
CanMake(s) == \A i \in DOMAIN s.filters : Filter(s, i).form # "no digits"

OrUnlimited(n) == IF n = 0 THEN Unlimited ELSE n

Checks(l) == MakeChecks(Search(l))
OfKind(l, k) == {i \in DOMAIN Checks(l) : Checks(l)[i].kind = k}
MaxDepth(l) == OrUnlimited(Search(l).maxdepth)
MatchLimit(l) == OrUnlimited(Search(l).matchlimit)

(* --- matches ------------------------------------------------------------------ *)

WantThis(c, match) ==
  IF match THEN c.inverse = c.mismatch ELSE c.inverse # c.mismatch

(* The processor of search l takes the match of its check i on file f: a file *)
(* counts once per check, or once per search when all checks must match.      *)
Store(e, l, i, f) ==
  LET m == [e EXCEPT !.matched[l][i] = @ \union {f}]
      every == \A j \in DOMAIN Checks(l) : f \in m.matched[l][j]
  IN IF f \in e.matched[l][i] THEN e
     ELSE IF Search(l).matchall /\ f \notin e.all[l]
     THEN IF every THEN [m EXCEPT !.all[l] = @ \union {f}, !.hits = @ + 1] ELSE m
     ELSE [m EXCEPT !.hits = @ + 1]

(* The checks of the set wanted take file f, one after the other.             *)
StoreAll(e, l, wanted, f) == FoldSet(LAMBDA i, acc : Store(acc, l, i, f), e, wanted)

Deactivated(e, l) == [e EXCEPT !.active = @ \ {l}]

(* checkName, checkMode, checkSize and checkMtime. When all checks must match *)
(* and one does not, the search is done with this file.                       *)
CheckMeta(e, l, file, k) ==
  LET is_ == OfKind(l, k)
      wanted == {i \in is_ : WantThis(Checks(l)[i], file.meta[k])}
      stored == StoreAll(e, l, wanted, file.path)
  IN IF l \notin e.active THEN e
     ELSE IF Search(l).matchall /\ wanted # is_
     THEN Deactivated(stored, l)
     ELSE stored

MetaPass(e, file) ==
  FoldSet(LAMBDA l, acc :
            FoldLeft(LAMBDA a, k : CheckMeta(a, l, file, k), acc, MetaKinds),
          e, Labels)

(* --- contents ------------------------------------------------------------------ *)

Content(l) == OfKind(l, "content")

(* A line fails a check under macroal when it matches and must not, or does   *)
(* not match and must.                                                        *)
FailsOn(c, line) == line = c.inverse

(* The lines a search looks at: macroal ends with the first that fails.       *)
LinesRead(l, file) ==
  LET failing == {n \in DOMAIN file.lines :
                    \E i \in Content(l) : FailsOn(Checks(l)[i], file.lines[n])}
  IN IF Search(l).macroal /\ failing # {}
     THEN 1..Min(failing)
     ELSE DOMAIN file.lines

Passed(l, file) ==
  /\ file.lines # << >>
  /\ \A n \in DOMAIN file.lines : \A i \in Content(l) : ~FailsOn(Checks(l)[i], file.lines[n])

(* checksstatus: the regex has matched a line.                                *)
Status(l, file) == \E n \in LinesRead(l, file) : file.lines[n]

(* The loop over the lines, for one search that reads them.                   *)
ReadLines(e, l, file) ==
  LET end == Max(LinesRead(l, file))
      any == {i \in Content(l) : /\ ~Checks(l)[i].inverse /\ Status(l, file)
                                 /\ WantThis(Checks(l)[i], TRUE)}
      every == {i \in Content(l) : /\ FailsOn(Checks(l)[i], file.lines[end])
                                   /\ WantThis(Checks(l)[i], file.lines[end])}
  IN IF ~Search(l).macroal THEN StoreAll(e, l, any, file.path)
     ELSE IF Passed(l, file) \/ file.lines = << >> THEN e
     ELSE Deactivated(StoreAll(e, l, every, file.path), l)

(* The last loop, for one search. A search that did not read the file has no  *)
(* entry in checksstatus: setting one of its checks panics.                   *)
Conclude(e, l, file, readers) ==
  LET status == l \in readers /\ Status(l, file)
      passed == {i \in Content(l) : WantThis(Checks(l)[i], status)}
      inverse == {i \in Content(l) : Checks(l)[i].inverse /\ ~status}
      absent(is_) == {i \in is_ : WantThis(Checks(l)[i], FALSE)}
      two == StoreAll(e, l, absent(inverse), file.path)
      now(i) == status \/ i \in inverse
      three == {i \in Content(l) : ~now(i) \/ Checks(l)[i].inverse}
      unmatched == {i \in three : WantThis(Checks(l)[i], now(i))}
  IN IF Search(l).macroal /\ l \in readers /\ Passed(l, file)
     THEN StoreAll(e, l, passed, file.path)
     ELSE IF l \notin readers /\ inverse # {}
     THEN [StoreAll(e, l, absent({Min(inverse)}), file.path) EXCEPT !.panic = TRUE]
     ELSE IF l \in two.active /\ Search(l).matchall /\ three # {}
     THEN Deactivated(StoreAll(two, l, unmatched, file.path), l)
     ELSE two

(* getReader opens the file, and unpacks it when decompress is on.            *)
GetReader(file) == file.readable

Failed(e, file) == [e EXCEPT !.errors = @ \union {file.path}, !.panic = FALSE]

(* checkContent; order is the one in which the last loop meets the searches.  *)
ContentPass(e, file, order) ==
  LET readers == {l \in e.active : Content(l) # {}}
      read == FoldSet(LAMBDA l, acc : ReadLines(acc, l, file), e, readers)
      last == FoldLeft(LAMBDA acc, l : IF acc.panic THEN acc ELSE Conclude(acc, l, file, readers),
                       read, order)
  IN IF readers = {} THEN e
     ELSE IF ~GetReader(file) THEN Failed(e, file)
     ELSE IF last.panic THEN Failed(last, file)
     ELSE last

(* --- hashes --------------------------------------------------------------------- *)

HashPass(e, file, k) ==
  LET users == {l \in e.active : OfKind(l, k) # {}}
      one(acc, l) ==
        LET wanted == {i \in OfKind(l, k) : WantThis(Checks(l)[i], file.hash[k])}
            stored == StoreAll(acc, l, wanted, file.path)
        IN IF Search(l).matchall /\ wanted # OfKind(l, k)
           THEN Deactivated(stored, l) ELSE stored
  IN IF users = {} THEN e
     ELSE IF ~GetReader(file) THEN Failed(e, file)
     ELSE FoldSet(LAMBDA l, acc : one(acc, l), e, users)

EvaluateOnce(e, file, order) ==
  FoldLeft(LAMBDA acc, k : HashPass(acc, file, k), ContentPass(MetaPass(e, file), file, order), HashKinds)

(* evaluateFile; whatever the passes switch off is on again afterwards.       *)
EvaluateFile(e, file, order) ==
  LET content == ContentPass(MetaPass(e, file), file, order)
      hashed == FoldLeft(LAMBDA acc, k : HashPass(acc, file, k), content, HashKinds)
  IN [hashed EXCEPT !.active = @ \union e.active]

(* --- the walk --------------------------------------------------------------------- *)

Tree == given.tree
At(path) == CHOOSE x \in Tree : x.path = path
Exists(path) == \E x \in Tree : x.path = path
Parent(path) == SubSeq(path, 1, Len(path) - 1)
EntriesOf(path) == {x \in Tree : x.path # << >> /\ Parent(x.path) = path}

(* Paths are compared as strings: /a/b is also the beginning of /a/bb.        *)
Begins(p, path) ==
  /\ Len(p) <= Len(path)
  /\ \A i \in 1..(Len(p) - 1) : p[i] = path[i]
  /\ path[Len(p)] \in Extending[p[Len(p)]]

InScope(l, path) == \E p \in Search(l).paths : Begins(p, path)

DepthAllowsMore(l, depth) == depth <= MaxDepth(l) + 1
DepthAllows(l, depth) == depth <= MaxDepth(l)

(* The start of pathWalk: which searches are switched on for path.            *)
Entered(path, e, at) ==
  LET scope == {l \in Labels : InScope(l, path)}
      depth(l) == IF l \in scope THEN (at[l].depth + 1) % DepthMod ELSE at[l].depth
      on == {l \in scope : DepthAllows(l, depth(l)) /\ e.hits < MatchLimit(l)}
      x == At(path)
      opens == Exists(path) /\ x.kind # "broken"
  IN /\ place' = [l \in Labels |-> [current |-> at[l].current \/ l \in scope, depth |-> depth(l)]]
     /\ found' = [e EXCEPT !.active = @ \union on,
                           !.errors = IF on # {} /\ ~opens THEN @ \union {path} ELSE @]
     /\ frames' = Append(frames,
          [path |-> path,
           pc |-> IF on = {} \/ ~opens THEN "leave"
                  ELSE IF x.kind = "dir" THEN "entries" ELSE "file",
           todo |-> IF on # {} /\ opens /\ x.kind = "dir" THEN EntriesOf(path) ELSE {},
           subdirs |-> {},
           (* Subdirectories have a trailing slash, roots do not. *)
           traversed |-> IF frames = << >> THEN {path} ELSE {}])

Top == frames[Len(frames)]
Calling == SubSeq(frames, 1, Len(frames) - 1)

NoMatches == [l \in Labels |-> [i \in DOMAIN Checks(l) |-> {}]]

FileInit ==
  /\ given \in Inputs
  /\ stage = "check" /\ roots = given.roots /\ traversed = {} /\ frames = << >>
  /\ place = [l \in Labels |-> [current |-> FALSE, depth |-> 0]]
  /\ found = [active |-> {}, matched |-> NoMatches, all |-> [l \in Labels |-> {}],
              hits |-> 0, errors |-> {}, panic |-> FALSE]

(* ValidateParameters and makeChecks, at the start of Run.                    *)
Validate ==
  /\ stage = "check"
  /\ stage' = IF \A l \in Labels : Accepted(Search(l)) /\ CanMake(Search(l)) THEN "walk" ELSE "failed"
  /\ UNCHANGED <<given, roots, traversed, frames, place, found>>

(* Run turns to the next root: all searches are switched off and their depths *)
(* reset, and the root is walked unless the walk of the last one went there.  *)
NextRoot ==
  LET off == [found EXCEPT !.active = {}]
      reset == [l \in Labels |-> [place[l] EXCEPT !.depth = 0]]
  IN /\ stage = "walk" /\ frames = << >> /\ roots # << >>
     /\ roots' = Tail(roots)
     /\ IF Head(roots) \in traversed
        THEN found' = off /\ place' = reset /\ UNCHANGED frames
        ELSE Entered(Head(roots), off, reset)
     /\ UNCHANGED <<given, stage, traversed>>

LimitReached(e, l) == e.hits >= MatchLimit(l)

(* An entry of a directory: searches at their limit are switched off first.   *)
NextEntry ==
  /\ frames # << >> /\ Top.pc = "entries"
  /\ \E x \in Top.todo : \E order \in SetToSeqs(Labels) :
       LET on == [found EXCEPT !.active = {l \in @ : ~LimitReached(found, l)}]
       IN /\ frames' = Append(Calling,
               [Top EXCEPT !.todo = @ \ {x},
                           !.subdirs = IF x.kind = "dir" THEN @ \union {x.path} ELSE @])
          /\ found' = IF x.kind \in {"file", "link"} THEN EvaluateFile(on, x, order)
                      ELSE IF x.kind = "broken" THEN [on EXCEPT !.errors = @ \union {x.path}]
                      ELSE on
  /\ UNCHANGED <<given, stage, roots, traversed, place>>

(* A root that is a file, or a link: the target of a link is evaluated.       *)
RootFile ==
  /\ frames # << >> /\ Top.pc = "file"
  /\ LET x == At(Top.path) IN
       \E order \in SetToSeqs(Labels) : found' = EvaluateFile(found, [x EXCEPT !.path = x.target], order)
  /\ frames' = Append(Calling, [Top EXCEPT !.pc = "leave"])
  /\ UNCHANGED <<given, stage, roots, traversed, place>>

Descend ==
  /\ frames # << >> /\ Top.pc = "entries" /\ Top.todo = {}
  /\ \E d \in Top.subdirs :
       Entered(d, found, place)
  /\ UNCHANGED <<given, stage, roots, traversed>>

LeftActive(l) == IF l \in found.active THEN [place[l] EXCEPT !.depth = (@ - 1) % DepthMod] ELSE place[l]

(* The depth of every search that has ever been in scope is decreased.        *)
Left(l) == IF place[l].current THEN [place[l] EXCEPT !.depth = (@ - 1) % DepthMod] ELSE place[l]

(* The end of pathWalk; the caller takes over what it has traversed.          *)
Leave ==
  /\ frames # << >>
  /\ Top.pc = "leave" \/ (Top.pc = "entries" /\ Top.todo = {} /\ Top.subdirs = {})
  /\ place' = [l \in Labels |-> Left(l)]
  /\ IF Calling = << >>
     THEN frames' = << >> /\ traversed' = Top.traversed
     ELSE LET caller == Calling[Len(Calling)]
          IN /\ frames' = Append(SubSeq(Calling, 1, Len(Calling) - 1),
                             [caller EXCEPT !.subdirs = @ \ {Top.path}, !.traversed = Top.traversed])
             /\ UNCHANGED traversed
  /\ UNCHANGED <<given, stage, roots, found>>

BuildResults ==
  /\ stage = "walk" /\ frames = << >> /\ roots = << >>
  /\ stage' = "done"
  /\ UNCHANGED <<given, roots, traversed, frames, place, found>>

FileNext ==
  \/ Validate \/ NextRoot \/ NextEntry \/ RootFile
  \/ Descend \/ Leave \/ BuildResults

FileSpec == FileInit /\ [][FileNext]_fvars

(* --- what a search means --------------------------------------------------------- *)

(* What buildResults returns for check i of search l.                         *)
Returned(l, i) == IF Search(l).matchall THEN found.all[l] ELSE found.matched[l][i]

(* The walk of Run from path p reaches files in directories at most MaxDepth  *)
(* below it, counting p.                                                      *)
Within(p, path) ==
  /\ Len(p) <= Len(path)
  /\ SubSeq(path, 1, Len(p)) = p

Covers(l, x) ==
  \E p \in Search(l).paths :
    /\ Within(p, x.path)
    /\ x.path = p \/ Len(x.path) - Len(p) <= MaxDepth(l)

(* A filter on a file, with "!" and mismatch, as modules/file/doc.rst has it. *)
Wanted(l, i, x) ==
  LET c == Checks(l)[i]
      any == \E n \in DOMAIN x.lines : x.lines[n]
      every == x.lines # << >> /\ \A n \in DOMAIN x.lines : x.lines[n]
      raw == CASE c.kind = "content" -> IF Search(l).macroal /\ ~c.inverse THEN every ELSE any
               [] c.kind \in Range(MetaKinds) -> x.meta[c.kind]
               [] c.kind \in Range(HashKinds) -> x.hash[c.kind]
               [] OTHER -> FALSE
  IN IF c.kind = "none" THEN FALSE ELSE (raw # c.inverse) # c.mismatch

Matches(l, i, x) ==
  IF Search(l).matchall THEN \A j \in DOMAIN Checks(l) : Wanted(l, j, x) ELSE Wanted(l, i, x)

Files == {x \in Tree : x.kind \in {"file", "link"}}

(* Searches whose filters checkContent and checkHash combine as documented.   *)
(* The others are in README.md: checkContent switches a search off although   *)
(* its inverted or mismatched content is as wanted, or when macroal fails,    *)
(* and the hashes are not looked at any more; without matchall it does not    *)
(* store a mismatch at all.                                                   *)
Regular(l) ==
  LET inverted == \E i \in Content(l) : Checks(l)[i].inverse
      hashed == \E k \in Range(HashKinds) : OfKind(l, k) # {}
      mismatched == Content(l) # {} /\ "content" \in Search(l).mismatch
  IN /\ Content(l) # {} /\ hashed =>
          ~inverted /\ ~mismatched /\ (Search(l).macroal => Search(l).matchall)
     /\ mismatched => Search(l).matchall /\ ~inverted

NoLimit(l) == MatchLimit(l) = Unlimited

(* --- properties ---------------------------------------------------------------- *)

(* The states of the walk; a panic of checkContent does not outlive it.       *)
TypeOK ==
  /\ stage \in {"check", "walk", "done", "failed"}
  /\ \A l \in Labels : place[l] \in [current : BOOLEAN, depth : 0..(DepthMod - 1)]
  /\ found.active \subseteq Labels /\ ~found.panic
  /\ \A k \in DOMAIN frames : frames[k].pc \in {"entries", "file", "leave"}

(* Every file below a path of a search, at a depth it allows, that its        *)
(* filters want is returned, or an error names it, however many searches walk *)
(* the same trees and in whatever order: what the searches share (the walk,   *)
(* isactive, the depth counters, the pass over a file) hides no match.        *)
MatchIsReturned ==
  stage = "done" =>
    \A l \in {k \in Labels : Regular(k) /\ NoLimit(k)} :
      \A i \in DOMAIN Checks(l) : \A x \in Files :
        Covers(l, x) /\ Matches(l, i, x) => x.path \in Returned(l, i) \union found.errors

Returns(l) == UNION {Returned(l, i) : i \in DOMAIN Checks(l)}

(* A search that runs alone returns nothing but files below its paths, at a   *)
(* depth it allows, that its filters want, and no more of them than           *)
(* matchlimit, also when the limit is reached within a directory (pathWalk,   *)
(* evaluateFile, processMatch).                                               *)
AloneIsExact ==
  Cardinality(Labels) = 1 =>
    \A l \in Labels :
      /\ Cardinality(Returns(l)) <= MatchLimit(l)
      /\ stage = "done" /\ Regular(l) =>
           \A i \in DOMAIN Checks(l) : \A x \in Files :
             x.path \in Returned(l, i) => Covers(l, x) /\ Matches(l, i, x)

(* When the walk of a root is over, a search that runs alone is back at depth *)
(* 0, whatever switched it off on the way: each directory that counted is     *)
(* left once (increasedepth, decreasedepth). The walk is as TypeOK says.      *)
DepthReturns ==
  /\ TypeOK
  /\ frames = << >> /\ Cardinality(Labels) = 1 => \A l \in Labels : place[l].depth = 0
================================================================================
