---------------------------- MODULE MCAimSession ----------------------------
EXTENDS AimSession

CONSTANTS a, b

Play(joins, ends, fails, minutes, auto, rejoin) ==
    [joins |-> joins, ends |-> ends, fails |-> fails, minutes |-> minutes,
     auto |-> auto, rejoin |-> rejoin]

MCPlays == 
    {Play(2, 1, 1, 0, TRUE, FALSE), Play(2, 2, 0, 1, TRUE, FALSE),
     Play(1, 1, 2, 0, TRUE, FALSE), Play(1, 1, 1, 1, FALSE, TRUE)}
=============================================================================
