--------------------------- MODULE MCRpcConnection ---------------------------
(***************************************************************************)
(* A small instance of RpcConnection: a call of each kind of end.          *)
(***************************************************************************)
EXTENDS RpcConnection, TLC

NfsCall(proc, args, how) ==
  [header |-> "call", cred |-> TRUE, rpcvers |-> TRUE, prog |-> "nfs", vers |-> TRUE,
   proc |-> proc, args |-> args, how |-> how, handle |-> "same"]

Garbage == [NfsCall("read", "bad", "unchecked") EXCEPT !.header = "garbage"]
Mount   == [NfsCall("mnt", "good", "unchecked") EXCEPT !.prog = "mount"]

SixCalls ==
  {NfsCall("create", "good", "guarded"), NfsCall("read", "good", "unchecked"),
   NfsCall("setattr", "good", "guarded"), NfsCall("write", "odd", "unchecked"),
   Mount, Garbage}

ThreeCuts == {None, 1, 2}
=============================================================================
