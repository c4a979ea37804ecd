------------------------------ MODULE PathStack ------------------------------
(***************************************************************************)
(* What the parser promises about a URL's path, as a state machine of its *)
(* own (the path state of the WHATWG URL standard and RFC 3986 section    *)
(* 5.2.4, remove_dot_segments, without the text around it).               *)
(*                                                                         *)
(* A hierarchical path is a stack of segments.  It starts empty; while it *)
(* is empty it may take a prefix of the base URL's path (a relative       *)
(* reference keeps the base's directories); after that it changes only by *)
(* pushing a segment that is not a dot segment, by popping the last one   *)
(* (never the lone drive letter of a file path), or by popping and        *)
(* pushing the empty segment that a trailing ".." leaves.  When a file    *)
(* path ends, leading empty segments may be dropped.  An opaque path (a   *)
(* cannot-be-a-base URL) is one segment that only grows, started empty or *)
(* copied from an opaque base.  Whether the URL is a file URL is fixed   *)
(* once its path has a segment.                                            *)
(***************************************************************************)
EXTENDS UrlChars

VARIABLES
  path,        \* the sequence of segments
  opaque,      \* the path is an opaque path
  isFile,      \* the URL's scheme is file
  basePath,    \* the base URL's path (fixed)
  baseOpaque   \* the base URL's path is opaque (fixed)

pvars == <<path, opaque, isFile, basePath, baseOpaque>>

\* "." and ".." in every spelling, lower-cased.
DotTexts ==
  {<<".">>, <<"%","2","e">>, <<".",".">>, <<".","%","2","e">>, <<"%","2","e",".">>,
   <<"%","2","e","%","2","e">>}

IsDot(seg) == LowerStr(seg) \in DotTexts

\* A normalized Windows drive letter: two bytes, a letter and ':'.
IsDrive(seg) == Len(seg) = 2 /\ seg[1] \in Alphas /\ seg[2] = ":"

\* The path without its last segment; a file path's lone drive stays.
Popped(p) ==
  IF p = <<>> \/ (isFile /\ Len(p) = 1 /\ IsDrive(p[1])) THEN p ELSE Front(p)

Empties(k) == [i \in 1..k |-> <<>>]

\* q is one step of the stack from p.
StackStep(p, q) ==
  \/ /\ p = <<>>
     /\ \E k \in 0..Len(basePath) : q = SubSeq(basePath, 1, k)
  \/ /\ Len(q) = Len(p) + 1 /\ SubSeq(q, 1, Len(p)) = p
     /\ ~IsDot(q[Len(q)])
  \/ q = Popped(p)
  \/ q = Append(Popped(p), <<>>)

\* q is a step of the stack from p, after which a file path may have lost
\* leading empty segments.
HierarchicalStep ==
  /\ ~opaque /\ ~opaque'
  /\ \/ StackStep(path, path')
     \/ /\ isFile /\ Len(path') >= 1
        /\ \E k \in 1..(Len(path) + 1) : StackStep(path, Empties(k) \o path')

BecomeOpaque ==
  /\ ~opaque /\ opaque' /\ path = <<>>
  /\ path' = <<<<>>>> \/ (baseOpaque /\ path' = basePath)

OpaqueGrow ==
  /\ opaque /\ opaque'
  /\ Len(path) = 1 /\ Len(path') = 1 /\ IsStrictPrefix(path[1], path'[1])

Init == path = <<>> /\ ~opaque

Next ==
  /\ isFile' = isFile \/ (path = <<>> /\ ~opaque)
  /\ UNCHANGED <<basePath, baseOpaque>>
  /\ \/ HierarchicalStep
     \/ BecomeOpaque
     \/ OpaqueGrow
     \/ UNCHANGED <<path, opaque>>

Spec == Init /\ [][Next]_pvars
=============================================================================
