----------------------------- MODULE MCPipeline -----------------------------
(* Instances of TracedPipeline for TLC.                                    *)
EXTENDS TracedPipeline

CONSTANTS x, y, m, n, o, p, s, t

Call(fn, key, calls) ==
  [fn |-> fn, key |-> key, payload |-> {}, catches |-> FALSE, reverts |-> FALSE,
   calls |-> calls]

Contract(calls) == Call("other", None, calls)

(* ERC-4337 handleOps: the failure of a UserOp is caught.                  *)
EntryPoint(calls) == [Contract(calls) EXCEPT !.catches = TRUE]

Write(k) == Call("write", k, <<>>)

(* A write whose payload says whether m is delivered.                      *)
Echo(k) == [Write(k) EXCEPT !.payload = {m}]

Read(k) == Call("read", k, <<>>)

(* Two UserOps that send and need messages.  The first has to be simulated *)
(* three times, and finds its second dependency when the first is there.   *)
Bundle == EntryPoint(<<Contract(<<Write(o), Contract(<<Read(m)>>), Read(n)>>),
                       Contract(<<Read(m), Echo(o)>>)>>)

Plain == Contract(<<Write(p)>>)

(* Two dependencies that may be answered one at a time, and a transaction  *)
(* that fails all the same.                                                *)
Doomed == [EntryPoint(<<Read(m), Read(n)>>) EXCEPT !.reverts = TRUE]

Paired == EntryPoint(<<Read(m), Read(n)>>)

(* A read whose failure nothing catches.                                   *)
Plea == Contract(<<Read(m)>>)

Txn(call, slots) == [call |-> call, slots |-> slots]

Bundled == [i \in Xts |-> IF i = x THEN <<Txn(Bundle, {s})>> ELSE <<>>]

(* y's transactions write what x's does, and one slot more.                *)
Writers == [i \in Xts |-> IF i = x THEN <<Txn(Contract(<<>>), {s})>>
                          ELSE <<Txn(Contract(<<>>), {s}), Txn(Contract(<<>>), {t})>>]

Failing == [i \in Xts |-> IF i = x THEN <<Txn(Plain, {s}), Txn(Doomed, {t})>> ELSE <<>>]

Waiting == [i \in Xts |-> IF i = x THEN <<Txn(Plain, {s}), Txn(Paired, {t})>> ELSE <<>>]

Blind == [i \in Xts |-> IF i = x THEN <<Txn(Paired, {s}), Txn(Plea, {t})>> ELSE <<>>]

Args(mailbox, peers) == [builder_rpc |-> "url", mailbox |-> mailbox, peers |-> peers]

AllSetups == {[program |-> Bundled, args |-> Args("address", {1})],
              [program |-> Writers, args |-> Args("address", {1})],
              [program |-> Failing, args |-> Args("address", {1})],
              [program |-> Waiting, args |-> Args("address", {})],
              [program |-> Blind, args |-> Args("malformed", {1})],
              [program |-> Failing, args |-> [Args("", {}) EXCEPT !.builder_rpc = ""]]}
=============================================================================
