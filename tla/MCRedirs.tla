------------------------------- MODULE MCRedirs -------------------------------
(* Instances of Redirs: the shell starts with descriptors 0, 1 and 2 open, and *)
(* with all the others free, or but a few of them.                             *)
EXTENDS Redirs

To(io, file) == [kind |-> "file", io |-> io, file |-> file, from |-> 0]
DupOf(io, fd) == [kind |-> "dup", io |-> io, file |-> "f", from |-> fd]
Odd(kind) == [kind |-> kind, io |-> 1, file |-> "f", from |-> 0]

\* Redirections of different standard descriptors, of 2 to where 1 goes before
\* and after 1 itself is redirected.
Plain ==
  {<<To(1, "f")>>, <<To(0, "g"), To(1, "f")>>,
   <<To(1, "f"), DupOf(2, 1)>>, <<DupOf(2, 1), To(1, "f")>>,
   <<To(2, "g"), DupOf(1, 0), To(0, "f")>>,
   <<To(2, "g"), Odd("malformed")>>, <<Odd("other")>>}

\* Redirections of descriptors that are closed, redirected twice, or in use for
\* a file or for a saved descriptor.
Wild == {<<To(1, "f"), To(1, "g")>>, <<To(4, "f")>>, <<To(3, "g"), To(5, "f")>>,
         <<To(1, "f"), DupOf(4, 1), To(3, "g")>>, <<To(2, "f"), DupOf(5, 9)>>,
         <<DupOf(3, 4), DupOf(1, 3)>>}

OpenTo(n) == [d \in Fd |-> CASE d = 0 -> "in" [] d = 1 -> "out" [] d = 2 -> "err"
                            [] d > n -> "f" [] OTHER -> Closed]
MCStarts == {[fds |-> OpenTo(MaxFd), lists |-> Plain], [fds |-> OpenTo(7), lists |-> Wild],
             [fds |-> OpenTo(5), lists |-> Plain]}
=============================================================================
