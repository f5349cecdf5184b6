-------------------------- MODULE MCWhatsAppWorker --------------------------
(* Instances of WhatsAppWorker for TLC.                                    *)
EXTENDS WhatsAppWorker, TLC

CONSTANTS w1, w2, m1, m2, m3

OneWorker == {w1}
TwoWorkers == {w1, w2}
TwoMessages == {m1, m2}
ThreeMessages == {m1, m2, m3}

AllKinds == Kind
Conversation == {"request", "choice"}
TwoChannels == {"request", "superscript", "telegram"}

WorkerMessageSymmetry == Permutations(Worker) \cup Permutations(Message)
=============================================================================
