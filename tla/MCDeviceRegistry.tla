--------------------------- MODULE MCDeviceRegistry ---------------------------
(* Instances of DeviceRegistry for TLC.                                    *)
EXTENDS DeviceRegistry

CONSTANTS a1, a2, a3, b1

\* Three gamepads of one model, whose ids collide, and one of another.
TwoModels == (a1 :> "a") @@ (a2 :> "a") @@ (a3 :> "a") @@ (b1 :> "b")

\* Which of the gamepads of one model is which makes no difference.
Interchangeable == Permutations({a1, a2, a3})
=============================================================================
