------------------------------- MODULE MnnTensor -------------------------------
(***************************************************************************)
(* The tensors of the inference engine, as far as the headers that the     *)
(* application ships define them: the element types (HalideRuntime.h) and  *)
(* a tensor's buffer with its dimensions, read through names that depend   *)
(* on the layout (Tensor.hpp).                                             *)
(***************************************************************************)
EXTENDS Naturals, Sequences

(* halide_type_code_t *)
TypeCodes == {"int", "uint", "float", "handle", "bfloat"}

(* halide_type_t: two are the same when all of their fields are. *)
HalideTypes == [code : TypeCodes, bits : 0 .. 255, lanes : 0 .. 65535]

HalideType(code, bits) == [code |-> code, bits |-> bits, lanes |-> 1]


(* The size of an element, in whole bytes, whatever its lanes. *)
BytesOf(type) == (type.bits + 7) \div 8

(* halide_type_of: the type of each C type. *)
HalideTypeOf ==
    [ bool     |-> HalideType("uint", 1),
      uint8_t  |-> HalideType("uint", 8),
      uint16_t |-> HalideType("uint", 16),
      uint32_t |-> HalideType("uint", 32),
      uint64_t |-> HalideType("uint", 64),
      int8_t   |-> HalideType("int", 8),
      int16_t  |-> HalideType("int", 16),
      int32_t  |-> HalideType("int", 32),
      int64_t  |-> HalideType("int", 64),
      float    |-> HalideType("float", 32),
      double   |-> HalideType("float", 64),
      pointer  |-> HalideType("handle", 64) ]

CTypes == DOMAIN HalideTypeOf

(* halide_dimension_t *)
Dimension(extent, stride) == [min |-> 0, extent |-> extent, stride |-> stride, flags |-> 0]

(* halide_buffer_t: data in main memory, or behind a device handle, or nowhere yet. *)
Buffer(type, dim, host, device) ==
    [type |-> type, dim |-> dim, host |-> host, device |-> device]

-------------------------------------------------------------------------------

DimensionTypes == {"TENSORFLOW", "CAFFE", "CAFFE_C4"}

Null == "null"

Dimensions(shape) == [i \in DOMAIN shape |-> Dimension(shape[i], 0)]

(* createDevice: memory is acquired by a backend later. *)
DeviceTensor(shape, cType, dimType) ==
    [ buffer |-> Buffer(HalideTypeOf[cType], Dimensions(shape), Null, Null),
      dimType |-> dimType ]

(* create: the data that are given, or memory of its own. *)
HostTensor(shape, cType, data, dimType) ==
    [ buffer |-> Buffer(HalideTypeOf[cType], Dimensions(shape),
                        IF data = Null THEN "allocated" ELSE data, Null),
      dimType |-> dimType ]

GetType(t) == t.buffer.type

Length(t, index) == t.buffer.dim[index + 1].extent
WithLength(t, index, n) == [t EXCEPT !.buffer.dim[index + 1].extent = n]
WithStride(t, index, n) == [t EXCEPT !.buffer.dim[index + 1].stride = n]

(* NHWC for tensorflow, NCHW otherwise *)
Batch(t)   == Length(t, 0)
Channel(t) == Length(t, IF t.dimType = "TENSORFLOW" THEN 3 ELSE 1)
Height(t)  == Length(t, IF t.dimType = "TENSORFLOW" THEN 1 ELSE 2)
Width(t)   == Length(t, IF t.dimType = "TENSORFLOW" THEN 2 ELSE 3)

(* elementSize, given what size() answers, which is in the engine's library *)
ElementSize(t, size) == size \div BytesOf(GetType(t))
================================================================================
