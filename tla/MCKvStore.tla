----------------------------- MODULE MCKvStore -----------------------------
(* Batches that go through, that fail at once, and that fail half way.      *)
EXTENDS KvStore

CONSTANTS a, b, x

BatchSet ==
  { <<Put(a, x), Put(b, x)>>, <<Put(b, x), Del(a)>>, <<Rejected>>,
    <<Put(a, x), Rejected, Put(b, x)>>, <<Put(a, x), Del(b), Rejected>> }
=============================================================================
