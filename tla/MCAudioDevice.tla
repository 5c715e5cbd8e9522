---------------------------- MODULE MCAudioDevice ----------------------------
(* Small instances of AudioDevice for TLC.                                  *)
EXTENDS AudioDevice, TLC

\* The boundaries of the tables of rates, and what lies about them.
MCRates == {0, 7999, 8000, 8001, 22050, 22051, 24000, 32000, 44099, 44100, 44101,
            47999, 48000, 48001, 192000}

\* The users, blocks and output addresses are alike.
MCSymmetry == Permutations(Openers) \cup Permutations(Devs) \cup Permutations(Blocks)
              \cup Permutations(Addresses)

\* No action reads both the tones and the rest of the device: it is enough
\* to explore the opens of tone generators while all the rest is as in Init.
MCToneless == DOMAIN in_bus_tone_frequency_map = {} /\ DOMAIN toning = {} /\ ~raced

MCOnlyTones ==
  /\ streams = [b \in Blocks |-> None] /\ wanted = [a \in Addresses |-> NewSettings]
  /\ control = Idle /\ DOMAIN setting = {}
  /\ last_patch_id = 0 /\ last_zone_selected_to_play = 1 /\ ~hfp_ctl

MCApart == MCToneless \/ MCOnlyTones
=============================================================================
