------------------------------ MODULE MCFileSearch ------------------------------
(* Small runs of the file module for TLC.                                     *)
EXTENDS FileSearch

Only(k, v, S) == [x \in S |-> x = k /\ v]

Entry(p, kind, name, lines, md5) ==
  [path |-> p, target |-> p, kind |-> kind, readable |-> kind = "file",
   meta |-> Only("name", name, Range(MetaKinds)), lines |-> lines,
   hash |-> Only("md5", md5, Range(HashKinds))]

Dir(p) == Entry(p, "dir", FALSE, << >>, FALSE)
Plain(p) == Entry(p, "file", TRUE, <<FALSE>>, TRUE)

MCExtending == [n \in {"a", "b", "bb", "f", "g"} |-> IF n = "b" THEN {"b", "bb"} ELSE {n}]

Right(kind, neg) == [kind |-> kind, neg |-> neg, form |-> "right"]
Perhaps(kind, negs) == {<< >>} \union {<<Right(kind, n)>> : n \in negs}

Combinations ==
  {x \o y \o z : x \in Perhaps("name", BOOLEAN), y \in Perhaps("content", BOOLEAN),
                 z \in Perhaps("md5", {FALSE})} \ {<< >>}

Parameters(paths, filters, mismatch, matchall, macroal, maxdepth, matchlimit) ==
  [paths |-> paths, filters |-> filters, mismatch |-> mismatch, matchall |-> matchall,
   macroal |-> macroal, maxdepth |-> maxdepth, matchlimit |-> matchlimit]

Alone(s, rs, tree) == [searches |-> [l \in {"s"} |-> s], roots |-> rs, tree |-> tree]

(* One search with any filters and options, on one file.                      *)
Singles ==
  {Alone(Parameters({<<"a">>}, fs, mm, all, mac, 0, 0), <<<<"a">>>>,
         {Dir(<<"a">>), Entry(<<"a", "f">>, "file", nm, ls, md)}) :
     fs \in Combinations, mm \in {{}, {"name"}, {"content"}, {"content", "md5"}},
     all \in BOOLEAN, mac \in BOOLEAN,
     nm \in BOOLEAN, ls \in {<< >>, <<TRUE>>, <<FALSE>>, <<FALSE, TRUE>>}, md \in BOOLEAN}

(* A file in each of /a, /a/b, /a/bb and /a/b/b, and a second one in /a with    *)
(* another content and hash.                                                  *)
Shared ==
  {Dir(<<"a">>), Dir(<<"a", "b">>), Dir(<<"a", "bb">>), Dir(<<"a", "b", "b">>),
   Entry(<<"a", "g">>, "file", TRUE, <<TRUE>>, FALSE),
   Plain(<<"a", "f">>), Plain(<<"a", "b", "f">>), Plain(<<"a", "bb", "f">>), Plain(<<"a", "b", "b", "f">>)}

(* A file that cannot be opened, a link to a directory and one to nothing.    *)
Odd ==
  {Dir(<<"a">>), Dir(<<"a", "b">>), Plain(<<"a", "f">>),
   [Plain(<<"a", "b", "f">>) EXCEPT !.readable = FALSE],
   Entry(<<"a", "b", "g">>, "dirlink", FALSE, << >>, FALSE), Entry(<<"a", "g">>, "broken", FALSE, << >>, FALSE)}

Paths == {{<<"a">>}, {<<"a", "b">>}, {<<"a">>, <<"a", "b">>}, {<<"a", "b">>, <<"a", "bb">>}}
RootsOf(ps) == SelectSeq(<<<<"a">>, <<"a", "b">>, <<"a", "bb">>>>, LAMBDA p : p \in ps)

(* One search, with limits.                                                   *)
Limited ==
  {Alone(Parameters(ps, fs, {}, all, FALSE, depth, limit), RootsOf(ps), tree) :
     ps \in Paths, fs \in {<<Right("name", FALSE)>>, <<Right("name", FALSE), Right("md5", FALSE)>>},
     all \in BOOLEAN, depth \in 0..2, limit \in 0..2, tree \in {Shared, Odd}}
  \union {Alone(Parameters({p}, <<Right("name", FALSE)>>, {}, TRUE, FALSE, 0, 0), <<p>>, Odd) :
            p \in {<<"a", "f">>, <<"a", "g">>, <<"b">>}}

(* Two searches on the same tree.                                             *)
Pairs ==
  {[searches |-> [l \in {"s", "t"} |->
                    IF l = "s" THEN Parameters(ps, fs, {}, all, FALSE, depth, 0)
                    ELSE Parameters(qs, gs, {}, TRUE, FALSE, 0, 0)],
    roots |-> RootsOf(ps \union qs), tree |-> Shared] :
     ps \in Paths, qs \in Paths, depth \in 0..2, all \in BOOLEAN,
     fs \in {<<Right("name", FALSE)>>, <<Right("content", TRUE)>>},
     gs \in {<<Right("content", FALSE)>>, <<Right("content", TRUE)>>}}

(* Filters that are not right.                                                *)
Wrong ==
  {Alone(Parameters({<<"a">>}, <<[kind |-> k, neg |-> FALSE, form |-> fm]>>, {}, all, FALSE, 0, 0),
         <<<<"a">>>>, Shared) :
     k \in {"size"}, fm \in {"malformed", "no digits"}, all \in BOOLEAN}
  \union
  {Alone(Parameters({<<"a">>}, <<[kind |-> k, neg |-> FALSE, form |-> "bad length"]>>, {}, all, FALSE, 0, 0),
         <<<<"a">>>>, Shared) : k \in {"md5", "sha2"}, all \in BOOLEAN}

MCInputs == Singles \union Limited \union Pairs \union Wrong
================================================================================
