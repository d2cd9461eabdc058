---------------------------- MODULE MCFatalError ----------------------------
EXTENDS FatalError

CONSTANTS t1, t2, f1

MCThreads == {t1, t2}
MCDieFns == {f1}
MCMaxSets == 3
=============================================================================
