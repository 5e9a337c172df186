-------------------------------- MODULE MCJob --------------------------------
(* Job for TLC.  With buffers of up to three slots and seven jobs the ring *)
(* goes round twice and a lap ends both on and off a multiple of its size; *)
(* one slot is the case jobstats_ringbuf_save treats apart.                *)
EXTENDS Job

MCSlotCounts == {0, 1, 2, 3}
MCMaxJobs    == 7

==============================================================================
