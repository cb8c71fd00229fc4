---------------------------- MODULE MCCoroutines ----------------------------
EXTENDS Coroutines

CONSTANTS a1, a2, t1, v1, g1

AsyncFrames == {a1, a2}
TaskFrames == {t1}
VoidFrames == {v1}
GeneratorFrames == {g1}
=============================================================================
