------------------------------ MODULE MCConfig ------------------------------
(***************************************************************************)
(* Two servers and their entrypoint, every content of files in the current *)
(* style, and a few with what makes load_configs raise: the old style,     *)
(* with and without `values`, and an eBPF section.                         *)
(***************************************************************************)
EXTENDS Config

MCNames == {"s1", "s2"}
MCEntrypoint == "entrypoint"

MCContents ==
  {f \in Files :
     \/ f.style = "new" /\ ~f.ebpf
     \/ f.style = "old" /\ ~f.ebpf /\ f.servers \in {Missing, [s1 |-> {MCEntrypoint}]}
     \/ f.style = "bare" /\ ~f.ebpf /\ f.servers = [s1 |-> {MCEntrypoint}] /\ f.defaults = {}
     \/ f.style = "new" /\ f.ebpf /\ f.defaults = {} /\ ~f.global /\ f.servers = Missing}
=============================================================================
