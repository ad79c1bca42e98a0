------------------------------- MODULE MCJpeg -------------------------------
(* Instances of Jpeg for TLC.                                              *)
EXTENDS Jpeg

CONSTANTS image1, image2, thread1, thread2

MCSizes == 1..3
(* Without -p and with it.                                                 *)
MCPools == {{thread1}, {thread1, thread2}}
=============================================================================
