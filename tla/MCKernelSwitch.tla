--------------------------- MODULE MCKernelSwitch ---------------------------
(* The instance of KernelSwitch for TLC: the two video kernels *)
(* and the two capture buffers hdmi_input.c asks for.                    *)
EXTENDS KernelSwitch

MCBuffers == <<"b1", "b2">>
MCKernels == {"rgb2gray", "sobel"}
KernelCmds == {{"GET_INIT_DATA", "MBOX_GET", "MBOX_TRYPUT", "EXIT"}}
ServerCalls == {"suspend_block", "resume"}
=============================================================================
