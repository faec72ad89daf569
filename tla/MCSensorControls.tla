-------------------------- MODULE MCSensorControls --------------------------
(* All sensors, one failed transfer; values inside, at and beyond the limits *)
(* of the controls.                                                          *)
EXTENDS SensorControls

Flags == {"awb", "awb_gain", "aec", "aec2", "agc", "bpc", "wpc", "raw_gma", "lenc", "hmirror",
          "vflip", "dcw", "colorbar"}
Levels == {"brightness", "contrast", "saturation", "ae_level", "sharpness"}

MCInputs ==
  [c \in Flags |-> {0, 1}] @@ [c \in Levels |-> {-4, -1, 2}] @@
  [pixformat |-> {"jpeg", "rgb565"}, framesize |-> {5, 9, 13},
   quality |-> {-1, 20, 64}, agc_gain |-> {0, 5, 31}, gainceiling |-> {2, 6},
   aec_value |-> {-1, 300, 1201}, special_effect |-> {-1, 2}, wb_mode |-> {0, 3, 5},
   denoise |-> {0, 3}]
=============================================================================
